---- MODULE Spec2Model ----
(***************************************************************************)
(* Wobble: the test discovery engine (src/wobble/discovery.py).            *)
(*                                                                         *)
(* The engine walks a repository, finds the test directories, asks the     *)
(* unittest loader for the suite of each, flattens it into test records    *)
(* and categorizes them.  The file system and the loader are the           *)
(* environment: a file system is chosen in Init and never changes.         *)
(* Names (of directories, files, patterns) are sequences of characters, so *)
(* that lower-casing, prefix, suffix and substring tests are computed.     *)
(***************************************************************************)
EXTENDS Integers, Sequences, FiniteSets, TLC

(******************************* the state ********************************)

VARIABLES
    fs,                \* the file system below root_path (the environment)
    discovered_tests,  \* TestDiscoveryEngine.discovered_tests
    call,              \* the latest call on the engine, with its arguments
    raised,            \* the exception that call raised, "no" when it returned
    result,            \* what that call returned
    first_counts,      \* per pattern, the counts the first discover_tests returned
    repeated,          \* the latest call repeated a discover_tests that had returned
    cat_input,         \* the record handed to _determine_category
    cat_output,        \* the category it returned
    started,           \* discover_tests has been entered on this engine
    completed,         \* discover_tests has returned on this engine
    ran,               \* the latest call ran discover_tests
    test_results,      \* EnhancedOutputFormatter.test_results
    run_start_time,    \* EnhancedOutputFormatter.run_start_time, 0 for None
    run_command,       \* EnhancedOutputFormatter.run_command, "none" for None
    file_outputs,      \* EnhancedOutputFormatter.file_outputs
    observers,         \* the observer list of the publisher, in registration order
    delivered,         \* per observer, the events notified to it so far
    delivery_order,    \* the observers the latest notify_all reached, in order
    now,               \* the clock: the number of test runs started so far
    queue,             \* per observer, the events enqueued and not yet taken by its worker
    written,           \* per observer, the entries its worker wrote to the file
    worker,            \* per observer, the state of its worker thread
    handle,            \* per observer, the state of its file handle
    closing,           \* position of the caller in close: 0 before, i in the join
                       \* of observer i, Len(observers) + 1 after it returned
    pc,                \* position of the main thread in main / run_tests
    suite,             \* the test cases run_tests runs, with their outcomes
    current,           \* index in suite of the test being run
    unittest_result,   \* the counters of WobbleTestResult
    results,           \* the dictionary run_tests returned
    exit_status,       \* the value main returned, -1 while it runs
    args,              \* the parsed command line of main, and whether args.path exists
    exc,               \* the exception main's try block caught, "none" when none
    ancestors,         \* the directories from the file-system root down to the start
                       \* path of detect_repository_root, each with the names it holds
    walk               \* detect_repository_root: its position on that chain and
                       \* what it returned

engine_vars == << fs, discovered_tests, call, raised, result, first_counts, repeated,
                  cat_input, cat_output, started, completed, ran >>

formatter_vars == << test_results, run_start_time, run_command, file_outputs, observers,
                     delivered, delivery_order, now >>

file_vars == << queue, written, worker, handle, closing >>

runner_vars == << pc, suite, current, unittest_result, results, exit_status, args, exc >>

root_vars == << ancestors, walk >>

vars == << engine_vars, formatter_vars, file_vars, runner_vars, root_vars >>

\* no formatter, no observer and no runner exists
NoReporting ==
    /\ test_results = <<>>
    /\ run_start_time = 0
    /\ run_command = "none"
    /\ file_outputs = <<>>
    /\ observers = <<>>
    /\ delivered = <<>>
    /\ delivery_order = <<>>
    /\ now = 0
    /\ queue = <<>>
    /\ written = <<>>
    /\ worker = <<>>
    /\ handle = <<>>
    /\ closing = 0
    /\ pc = "none"
    /\ suite = <<>>
    /\ current = 0
    /\ unittest_result = [testsRun |-> 0, failures |-> 0, errors |-> 0, skipped |-> 0]
    /\ results = [returned |-> FALSE]
    /\ exit_status = -1
    /\ args = [path_exists |-> TRUE, list_categories |-> FALSE, discover_only |-> FALSE]
    /\ exc = "none"

\* detect_repository_root has not been called
NoRoot ==
    /\ ancestors = <<>>
    /\ walk = [current |-> 0, returned |-> FALSE, root |-> 0]

(***************************** character strings **************************)

UpperToLower ==
    [c \in {"A","B","C","D","E","F","G","H","I","J","K","L","M","N","O","P","Q",
            "R","S","T","U","V","W","X","Y","Z"} |->
       CASE c = "A" -> "a" [] c = "B" -> "b" [] c = "C" -> "c" [] c = "D" -> "d"
         [] c = "E" -> "e" [] c = "F" -> "f" [] c = "G" -> "g" [] c = "H" -> "h"
         [] c = "I" -> "i" [] c = "J" -> "j" [] c = "K" -> "k" [] c = "L" -> "l"
         [] c = "M" -> "m" [] c = "N" -> "n" [] c = "O" -> "o" [] c = "P" -> "p"
         [] c = "Q" -> "q" [] c = "R" -> "r" [] c = "S" -> "s" [] c = "T" -> "t"
         [] c = "U" -> "u" [] c = "V" -> "v" [] c = "W" -> "w" [] c = "X" -> "x"
         [] c = "Y" -> "y" [] c = "Z" -> "z"]

\* str.lower()
Lower(s) ==
    [i \in 1..Len(s) |-> IF s[i] \in DOMAIN UpperToLower THEN UpperToLower[s[i]] ELSE s[i]]

\* str.startswith(prefix)
StartsWith(s, prefix) ==
    /\ Len(prefix) <= Len(s)
    /\ SubSeq(s, 1, Len(prefix)) = prefix

\* str.endswith(suffix)
EndsWith(s, suffix) ==
    /\ Len(suffix) <= Len(s)
    /\ SubSeq(s, Len(s) - Len(suffix) + 1, Len(s)) = suffix

\* sub in s
Contains(s, sub) ==
    \E i \in 1..(Len(s) + 1) :
        /\ i + Len(sub) - 1 <= Len(s)
        /\ SubSeq(s, i, i + Len(sub) - 1) = sub

\* PurePath.suffix: the part of the name from its last dot, empty when the
\* name has no dot, starts with its only dot or ends with a dot.
Suffix(name) ==
    LET dots == {i \in 1..Len(name) : name[i] = "."}
    IN  IF dots = {} THEN <<>>
        ELSE LET last == CHOOSE i \in dots : \A j \in dots : j <= i
             IN  IF last = 1 \/ last = Len(name) THEN <<>>
                 ELSE SubSeq(name, last, Len(name))

\* fnmatch with '*' as the only wildcard, as the loader matches file names.
RECURSIVE FnMatch(_, _)
FnMatch(name, pat) ==
    IF pat = <<>> THEN name = <<>>
    ELSE IF Head(pat) = "*"
         THEN \E k \in 0..Len(name) : FnMatch(SubSeq(name, k + 1, Len(name)), Tail(pat))
         ELSE /\ name # <<>>
              /\ Head(name) = Head(pat)
              /\ FnMatch(Tail(name), Tail(pat))

kw_regression  == <<"r","e","g","r","e","s","s","i","o","n">>
kw_integration == <<"i","n","t","e","g","r","a","t","i","o","n">>
kw_development == <<"d","e","v","e","l","o","p","m","e","n","t">>
kw_dev         == <<"d","e","v">>
kw_unit        == <<"u","n","i","t">>
kw_test        == <<"t","e","s","t">>
ext_py         == <<".","p","y">>

n_tests == kw_test \o <<"s">>
n_test  == kw_test
n_Tests == <<"T","e","s","t","s">>
n_Test  == <<"T","e","s","t">>

\* file names
f_test_a_py  == kw_test \o <<"_","a">> \o ext_py
f_a_test_py  == <<"a","_">> \o kw_test \o ext_py
f_test_a_pyc == kw_test \o <<"_","a">> \o ext_py \o <<"c">>
f_helper_py  == <<"h","e","l","p","e","r">> \o ext_py
f_init_py    == <<"_","_","i","n","i","t","_","_",".","p","y">>
f_test_b_py  == <<"t","e","s","t","_","b",".","p","y">>

\* discovery patterns: the default "test*.py" and the alternative "*test.py"
pat_default == kw_test \o <<"*">> \o ext_py
pat_alt     == <<"*">> \o kw_test \o ext_py
Patterns    == {pat_default, pat_alt}

(******************************* bounds ***********************************)

\* number of tests of an undecorated test class
MaxPlainTests == 3

(***************************** test metadata ******************************)

\* What get_test_metadata returns for a test method: a mapping with the
\* optional keys category (a string), slow and skip_ci (booleans).
md_none     == [k \in {} |-> TRUE]
md_reg      == [category |-> "regression"]
md_int_slow == [category |-> "integration", slow |-> TRUE, skip_ci |-> TRUE]
md_dev      == [category |-> "development", slow |-> FALSE]
md_perf     == [category |-> "performance"]
md_slow     == [slow |-> TRUE]
md_skip_ci  == [skip_ci |-> TRUE, slow |-> FALSE]
md_blank    == [category |-> "", skip_ci |-> FALSE]

Metadata ==
    {md_none, md_reg, md_int_slow, md_dev, md_perf, md_slow, md_skip_ci, md_blank}

\* bool(metadata.get(key)) for a string value and for a boolean value
StrTruthy(md, key)  == key \in DOMAIN md /\ md[key] # ""
BoolTruthy(md, key) == key \in DOMAIN md /\ md[key] = TRUE

(************************** the file system *******************************)

\* Physical directories.  Two paths may lead to the same physical directory
\* (case-insensitive file system, symbolic link).
DirIds == {"R1", "R2", "S1", "S2"}
NoDir  == "none"

\* a node of a unittest suite: a TestSuite, a TestCase or an _ErrorHolder
SuiteNode(tests)   == [kind |-> "suite", tests |-> tests]
TestNode(id, md)   == [kind |-> "test", id |-> id, md |-> md]
HolderNode(id)     == [kind |-> "holder", id |-> id]

\* an entry of a directory listing
FileEntry(name, module) ==
    [name |-> name, is_dir |-> FALSE, dir |-> NoDir, module |-> module, load_tests |-> FALSE]
DirEntry(name, d) ==
    [name |-> name, is_dir |-> TRUE, dir |-> d, module |-> <<>>, load_tests |-> FALSE]

\* a module that defines load_tests: the loader takes what load_tests
\* returns, whatever it is, in place of the suite of the module's classes
LoadTestsEntry(name, returned) ==
    [name |-> name, is_dir |-> FALSE, dir |-> NoDir, module |-> << returned >>,
     load_tests |-> TRUE]

\* the test classes of one module: a sequence of class suites
PlainModule(d) ==
    << SuiteNode([k \in 1..MaxPlainTests |-> TestNode(<<d, "plain", k>>, md_none)]) >>
MixedModule(d) ==
    << SuiteNode(<< TestNode(<<d, "mixed", 1>>, md_reg),
                    TestNode(<<d, "mixed", 2>>, md_slow),
                    TestNode(<<d, "mixed", 3>>, md_int_slow) >>),
       SuiteNode(<< TestNode(<<d, "mixed", 4>>, md_skip_ci),
                    TestNode(<<d, "mixed", 5>>, md_dev),
                    TestNode(<<d, "mixed", 6>>, md_blank) >>) >>
PerfModule(d) ==
    << SuiteNode(<< TestNode(<<d, "perf", 1>>, md_none),
                    TestNode(<<d, "perf", 2>>, md_perf) >>) >>
HolderModule(d) ==
    << SuiteNode(<< TestNode(<<d, "holder", 1>>, md_none),
                    HolderNode(<<d, "holder", 2>>),
                    TestNode(<<d, "holder", 3>>, md_reg) >>) >>

\* what load_tests of a module returns: a suite nested one level deeper than
\* the loader's own suites, and a bare test case
NestedSuite(d) ==
    SuiteNode(<< SuiteNode(<< SuiteNode(<< TestNode(<<d, "nested", 1>>, md_none) >>),
                              TestNode(<<d, "nested", 2>>, md_none) >>) >>)
DirectTest(d) == TestNode(<<d, "direct", 1>>, md_none)

\* What a directory holds, apart from its subdirectories.  "locked" and
\* "unreadable" directories cannot be listed; the loader raises on "raises".
DirKinds ==
    {"empty", "locked", "unreadable", "raises", "plain", "mixed", "perf", "holder", "alt", "pyc"}

KindFiles(kind, d) ==
    CASE kind = "empty"      -> << FileEntry(f_helper_py, <<>>) >>
      [] kind = "locked"     -> << FileEntry(f_helper_py, <<>>) >>
      [] kind = "unreadable" -> << FileEntry(f_test_a_py, PlainModule(d)) >>
      [] kind = "raises"     -> << FileEntry(f_test_a_py, PlainModule(d)) >>
      [] kind = "plain"      -> << FileEntry(f_test_a_py, PlainModule(d)) >>
      [] kind = "mixed"      -> << FileEntry(f_helper_py, <<>>),
                                   FileEntry(f_test_a_py, MixedModule(d)) >>
      [] kind = "perf"       -> << FileEntry(f_test_a_py, PerfModule(d)) >>
      [] kind = "holder"     -> << FileEntry(f_test_a_py, HolderModule(d)) >>
      [] kind = "alt"        -> << FileEntry(f_a_test_py, PlainModule(d)) >>
      [] kind = "pyc"        -> << FileEntry(f_test_a_pyc, <<>>) >>
      [] kind = "package"    -> << FileEntry(f_init_py, <<>>),
                                   FileEntry(f_test_a_py, PlainModule(d)) >>
      [] kind = "altpackage" -> << FileEntry(f_init_py, <<>>),
                                   FileEntry(f_a_test_py, PlainModule(d)) >>
      [] kind = "nested"     -> << LoadTestsEntry(f_test_a_py, NestedSuite(d)),
                                   FileEntry(f_test_b_py, PlainModule(d)) >>
      [] kind = "direct"     -> << LoadTestsEntry(f_test_a_py, DirectTest(d)),
                                   FileEntry(f_test_b_py, PlainModule(d)) >>

\* a physical directory: whether it can be listed, whether the loader
\* raises on it, and its listing (files first, then subdirectories)
MkDir(kind, d, subdirs) ==
    [listable      |-> kind \notin {"locked", "unreadable"},
     loader_raises |-> kind = "raises",
     entries       |-> KindFiles(kind, d) \o subdirs]

\* the candidate names of a test root, in the order they are tried
common_patterns == << n_tests, n_test, n_Tests, n_Test >>
RootNames       == {common_patterns[i] : i \in 1..Len(common_patterns)}

\* which physical directory each root name leads to
Layout(a, b, c, d) == (n_tests :> a) @@ (n_test :> b) @@ (n_Tests :> c) @@ (n_Test :> d)

Layouts ==
    { Layout(NoDir, NoDir, NoDir, NoDir),     \* no test root at all
      Layout("R1", NoDir, NoDir, NoDir),      \* tests/
      Layout("R1", NoDir, "R1", NoDir),       \* tests/ on a case-insensitive file system
      Layout("R1", "R1", NoDir, NoDir),       \* tests/ and the symbolic link test -> tests
      Layout("R1", "R2", NoDir, NoDir),       \* tests/ and test/, two directories
      Layout(NoDir, NoDir, NoDir, "R2") }     \* Test/

\* names of a subdirectory of a test root
SubNames ==
    { kw_regression,
      <<"I","N","T","E","G","R","A","T","I","O","N">>,
      kw_integration \o <<"_">> \o kw_regression,
      kw_dev \o <<"_">> \o kw_integration,
      kw_development,
      <<"M","y","D","e","v">>,
      kw_unit,
      <<".">> \o kw_dev,
      <<"_","_">> \o kw_regression }

\* A file system: R1 holds the subdirectories S1 (when s1kind is not
\* "absent") and S2 (when s2kind is not "absent"); R2 holds plain tests.
MkFS(layout, r1kind, s1name, s1kind, s2kind) ==
    [root |-> layout,
     dirs |-> ("R1" :> MkDir(r1kind, "R1",
                   (IF s1kind = "absent" THEN <<>> ELSE << DirEntry(s1name, "S1") >>) \o
                   (IF s2kind = "absent" THEN <<>> ELSE << DirEntry(kw_integration, "S2") >>)))
           @@ ("R2" :> MkDir("plain", "R2", <<>>))
           @@ ("S1" :> MkDir(IF s1kind = "absent" THEN "empty" ELSE s1kind, "S1", <<>>))
           @@ ("S2" :> MkDir(IF s2kind = "absent" THEN "empty" ELSE s2kind, "S2", <<>>))]

\* The file systems the engine is run on: every layout of the roots, every
\* kind of root, and every name and kind of subdirectory.
FileSystems ==
    { MkFS(l, k, kw_regression, s, "absent") :
          l \in Layouts, k \in {"empty", "locked", "unreadable", "plain", "mixed"},
          s \in {"absent", "plain"} }
    \cup
    { MkFS(Layout("R1", NoDir, NoDir, NoDir), k, kw_regression, s, t) :
          k \in DirKinds, s \in {"absent", "unreadable", "raises", "plain"},
          t \in {"absent", "plain"} }
    \cup
    { MkFS(Layout("R1", NoDir, NoDir, NoDir), k, n, s, "absent") :
          k \in {"empty", "plain"}, n \in SubNames, s \in {"plain", "mixed"} }

(************************** TestDiscoveryEngine ***************************)

\* a path below root_path: the sequence of its names
PathName(path) == path[Len(path)]

\* the physical directory a path leads to
Resolve(tree, path) ==
    IF Len(path) = 1 THEN tree.root[path[1]]
    ELSE LET es == tree.dirs[tree.root[path[1]]].entries
             i  == CHOOSE i \in 1..Len(es) : es[i].is_dir /\ es[i].name = path[2]
         IN  es[i].dir

\* _contains_test_files
ContainsTestFiles(tree, d) ==
    IF ~tree.dirs[d].listable THEN FALSE
    ELSE \E i \in 1..Len(tree.dirs[d].entries) :
            LET file_path == tree.dirs[d].entries[i]
            IN  /\ ~file_path.is_dir
                /\ Suffix(file_path.name) = ext_py
                /\ StartsWith(file_path.name, kw_test)

\* the loop over test_dir.iterdir() without the test on the leading '.' and '__'
RECURSIVE ScanSubdirs_NoSkip(_, _, _, _)
ScanSubdirs_NoSkip(tree, test_dir, entries, acc) ==
    IF entries = <<>> THEN acc
    ELSE LET e      == Head(entries)
             subdir == test_dir \o << e.name >>
         IN  IF /\ e.is_dir
                /\ subdir \notin acc.discovered_paths
                /\ ContainsTestFiles(tree, e.dir)
             THEN ScanSubdirs_NoSkip(tree, test_dir, Tail(entries),
                      [acc EXCEPT !.test_dirs = Append(@, subdir),
                                  !.discovered_paths = @ \cup {subdir}])
             ELSE ScanSubdirs_NoSkip(tree, test_dir, Tail(entries), acc)

\* the loop over test_dir.iterdir() of _find_test_directories
RECURSIVE ScanSubdirs(_, _, _, _)
ScanSubdirs(tree, test_dir, entries, acc) ==
    IF entries = <<>> THEN acc
    ELSE LET e      == Head(entries)
             subdir == test_dir \o << e.name >>
         IN  IF /\ e.is_dir
                /\ ~StartsWith(e.name, <<".">>)
                /\ ~StartsWith(e.name, <<"_","_">>)
                /\ subdir \notin acc.discovered_paths
                /\ ContainsTestFiles(tree, e.dir)
             THEN ScanSubdirs(tree, test_dir, Tail(entries),
                      [acc EXCEPT !.test_dirs = Append(@, subdir),
                                  !.discovered_paths = @ \cup {subdir}])
             ELSE ScanSubdirs(tree, test_dir, Tail(entries), acc)

\* the loop over common_patterns of _find_test_directories
RECURSIVE FindFrom(_, _, _)
FindFrom(tree, patterns, acc) ==
    IF patterns = <<>> THEN acc
    ELSE LET test_dir == << Head(patterns) >>
             d        == tree.root[Head(patterns)]
         IN  IF d = NoDir THEN FindFrom(tree, Tail(patterns), acc)
             ELSE LET acc1 == IF test_dir \notin acc.discovered_paths /\ ContainsTestFiles(tree, d)
                              THEN [acc EXCEPT !.test_dirs = Append(@, test_dir),
                                               !.discovered_paths = @ \cup {test_dir}]
                              ELSE acc
                  IN  IF ~tree.dirs[d].listable
                      THEN [acc1 EXCEPT !.raised = "PermissionError"]
                      ELSE FindFrom(tree, Tail(patterns),
                                    ScanSubdirs(tree, test_dir, tree.dirs[d].entries, acc1))

\* _find_test_directories: the list of test directories, or the exception
FindTestDirectories(tree) ==
    FindFrom(tree, common_patterns,
             [test_dirs |-> <<>>, discovered_paths |-> {}, raised |-> "no"])

\* a directory the loader can import as a package: it holds __init__.py
IsPackage(tree, d) ==
    /\ tree.dirs[d].listable
    /\ \E i \in 1..Len(tree.dirs[d].entries) :
           ~tree.dirs[d].entries[i].is_dir /\ tree.dirs[d].entries[i].name = f_init_py

\* loadTestsFromModule: the suite of the module's class suites, or what its
\* load_tests returns
ModuleSuite(file) ==
    IF file.load_tests THEN file.module[1] ELSE SuiteNode(file.module)

\* the tests the loader finds along a directory listing: the module suite of
\* each file that matches the pattern and, for each subdirectory that is a
\* package, the (empty) suite of the package and the tests found in it
RECURSIVE FindTests(_, _, _)
FindTests(tree, entries, pattern) ==
    IF entries = <<>> THEN <<>>
    ELSE LET e == Head(entries)
         IN  (IF ~e.is_dir
              THEN (IF FnMatch(e.name, pattern) THEN << ModuleSuite(e) >> ELSE <<>>)
              ELSE IF IsPackage(tree, e.dir)
                   THEN << SuiteNode(<<>>) >> \o
                        FindTests(tree, tree.dirs[e.dir].entries, pattern)
                   ELSE <<>>)
             \o FindTests(tree, Tail(entries), pattern)

\* unittest.TestLoader().discover(directory, pattern): raises, or returns
\* the suite of what it finds in the directory and in the packages below it
Loader(tree, d, pattern) ==
    IF tree.dirs[d].loader_raises
    THEN [raised |-> TRUE, suite |-> SuiteNode(<<>>)]
    ELSE [raised |-> FALSE,
          suite  |-> SuiteNode(FindTests(tree, tree.dirs[d].entries, pattern))]

\* hasattr(x, '_tests')
HasTests(node) == node.kind = "suite"

\* _is_error_holder
IsErrorHolder(node) == node.kind = "holder"

\* self.discovered_tests[key] = value, on the list discovered_tests is:
\* a list takes no string index
ListSetItem(list, key, value) ==
    [raised |-> "TypeError", discovered_tests |-> list]

\* _process_error_holder: the record is built, then stored under the key
\* 'import_errors' of discovered_tests
ProcessErrorHolder(error_holder, directory, discovered) ==
    LET error_info == [error_holder |-> error_holder.id,
                       error_type   |-> "import_failure",
                       directory    |-> directory]
    IN  \* 'import_errors' not in self.discovered_tests: no record equals the key
        ListSetItem(discovered, "import_errors", << error_info >>)

\* _process_test
ProcessTest(test_case, directory, discovered) ==
    IF IsErrorHolder(test_case)
    THEN ProcessErrorHolder(test_case, directory, discovered)
    ELSE IF test_case.kind # "test"
         THEN \* a suite has no _testMethodName
              [raised |-> "AttributeError", discovered_tests |-> discovered]
         ELSE [raised |-> "no",
               discovered_tests |->
                   Append(discovered, [test_case |-> test_case.id,
                                       directory |-> directory,
                                       metadata  |-> test_case.md])]

\* the objects handed to _process_test by the loops of _discover_in_directory,
\* in order
RECURSIVE CasesOf(_)
CasesOf(test_cases) ==
    IF test_cases = <<>> THEN <<>>
    ELSE (IF HasTests(Head(test_cases)) THEN Head(test_cases).tests
          ELSE << Head(test_cases) >>) \o CasesOf(Tail(test_cases))

RECURSIVE GroupsOf(_)
GroupsOf(test_groups) ==
    IF test_groups = <<>> THEN <<>>
    ELSE (IF HasTests(Head(test_groups)) THEN CasesOf(Head(test_groups).tests)
          ELSE <<>>) \o GroupsOf(Tail(test_groups))

\* the calls of _process_test, up to the first one that raises
RECURSIVE ProcessAll(_, _, _)
ProcessAll(tests, directory, discovered) ==
    IF tests = <<>> THEN discovered
    ELSE LET r == ProcessTest(Head(tests), directory, discovered)
         IN  IF r.raised # "no" THEN r.discovered_tests
             ELSE ProcessAll(Tail(tests), directory, r.discovered_tests)

\* _discover_in_directory: every exception is caught, what was appended
\* before it stays
DiscoverInDirectory(tree, directory, pattern, discovered) ==
    LET r == Loader(tree, Resolve(tree, directory), pattern)
    IN  IF r.raised THEN discovered
        ELSE ProcessAll(GroupsOf(r.suite.tests), directory, discovered)

\* the loop over test_dirs of discover_tests
RECURSIVE DiscoverAll(_, _, _, _)
DiscoverAll(tree, test_dirs, pattern, discovered) ==
    IF test_dirs = <<>> THEN discovered
    ELSE DiscoverAll(tree, Tail(test_dirs), pattern,
                     DiscoverInDirectory(tree, Head(test_dirs), pattern, discovered))

CategoryKeys == {"regression", "integration", "development", "uncategorized"}

\* _determine_category with the directory looked at before the metadata
DetermineCategory_DirectoryFirst(test_info) ==
    LET dir_name == IF test_info.directory # <<>>
                    THEN Lower(PathName(test_info.directory)) ELSE <<>>
    IN  IF Contains(dir_name, kw_regression) THEN "regression"
        ELSE IF Contains(dir_name, kw_integration) THEN "integration"
        ELSE IF Contains(dir_name, kw_development) \/ Contains(dir_name, kw_dev)
             THEN "development"
        ELSE IF StrTruthy(test_info.metadata, "category")
             THEN test_info.metadata.category
        ELSE "uncategorized"

\* _determine_category without .lower() on the directory name
DetermineCategory_CaseSensitive(test_info) ==
    IF StrTruthy(test_info.metadata, "category")
    THEN test_info.metadata.category
    ELSE IF test_info.directory # <<>>
         THEN LET dir_name == PathName(test_info.directory)
              IN  IF Contains(dir_name, kw_regression) THEN "regression"
                  ELSE IF Contains(dir_name, kw_integration) THEN "integration"
                  ELSE IF Contains(dir_name, kw_development) \/ Contains(dir_name, kw_dev)
                       THEN "development"
                  ELSE "uncategorized"
         ELSE "uncategorized"

\* _determine_category
DetermineCategory(test_info) ==
    IF StrTruthy(test_info.metadata, "category")
    THEN test_info.metadata.category
    ELSE IF test_info.directory # <<>>
         THEN LET dir_name == Lower(PathName(test_info.directory))
              IN  IF Contains(dir_name, kw_regression) THEN "regression"
                  ELSE IF Contains(dir_name, kw_integration) THEN "integration"
                  ELSE IF Contains(dir_name, kw_development) \/ Contains(dir_name, kw_dev)
                       THEN "development"
                  ELSE "uncategorized"
         ELSE "uncategorized"

\* the loop of _categorize_tests: categories[category].append(test_info)
RECURSIVE CategorizeFrom(_, _)
CategorizeFrom(tests, categories) ==
    IF tests = <<>> THEN [raised |-> "no", categories |-> categories]
    ELSE LET category == DetermineCategory(Head(tests))
         IN  IF category \notin DOMAIN categories
             THEN [raised |-> "KeyError", categories |-> categories]
             ELSE CategorizeFrom(Tail(tests),
                                 [categories EXCEPT ![category] = Append(@, Head(tests))])

\* _categorize_tests
CategorizeTests(discovered) ==
    CategorizeFrom(discovered, [c \in CategoryKeys |-> <<>>])

\* discover_tests without the reset of discovered_tests it starts with
DiscoverTests_Accumulate(tree, pattern) ==
    LET found == FindTestDirectories(tree)
    IN  IF found.raised # "no"
        THEN [discovered_tests |-> discovered_tests, raised |-> found.raised, value |-> "none"]
        ELSE LET discovered  == DiscoverAll(tree, found.test_dirs, pattern, discovered_tests)
                 categorized == CategorizeTests(discovered)
             IN  [discovered_tests |-> discovered,
                  raised |-> categorized.raised,
                  value  |-> IF categorized.raised = "no" THEN categorized.categories
                             ELSE "none"]

\* discover_tests: the new discovered_tests, and what the call returns or
\* raises
DiscoverTests(tree, pattern) ==
    LET found == FindTestDirectories(tree)
    IN  IF found.raised # "no"
        THEN [discovered_tests |-> <<>>, raised |-> found.raised, value |-> "none"]
        ELSE LET discovered  == DiscoverAll(tree, found.test_dirs, pattern, <<>>)
                 categorized == CategorizeTests(discovered)
             IN  [discovered_tests |-> discovered,
                  raised |-> categorized.raised,
                  value  |-> IF categorized.raised = "no" THEN categorized.categories
                             ELSE "none"]

\* the categories argument of filter_tests: None, or a list
NoCategories       == [given |-> FALSE, list |-> <<>>]
CategoryList(list) == [given |-> TRUE, list |-> list]
InList(x, list)    == \E i \in 1..Len(list) : list[i] = x

\* filter_tests with "if categories is not None" for "if categories"
FilterTests_EmptyListRestricts(discovered, categories, exclude_slow, exclude_ci) ==
    SelectSeq(discovered,
        LAMBDA test_info :
            /\ categories.given
                   => InList(DetermineCategory(test_info), categories.list)
            /\ ~(exclude_slow /\ BoolTruthy(test_info.metadata, "slow"))
            /\ ~(exclude_ci /\ BoolTruthy(test_info.metadata, "skip_ci")))

\* filter_tests that takes the empty list as "no category allowed"
FilterTests_EmptyListAllowsNothing(discovered, categories, exclude_slow, exclude_ci) ==
    IF categories.given /\ categories.list = <<>> THEN <<>>
    ELSE SelectSeq(discovered,
             LAMBDA test_info :
                 /\ categories.given
                        => InList(DetermineCategory(test_info), categories.list)
                 /\ ~(exclude_slow /\ BoolTruthy(test_info.metadata, "slow"))
                 /\ ~(exclude_ci /\ BoolTruthy(test_info.metadata, "skip_ci")))

\* the loop of filter_tests over discovered_tests
FilterTests(discovered, categories, exclude_slow, exclude_ci) ==
    SelectSeq(discovered,
        LAMBDA test_info :
            /\ (categories.given /\ categories.list # <<>>)
                   => InList(DetermineCategory(test_info), categories.list)
            /\ ~(exclude_slow /\ BoolTruthy(test_info.metadata, "slow"))
            /\ ~(exclude_ci /\ BoolTruthy(test_info.metadata, "skip_ci")))

\* if not self.discovered_tests: self.discover_tests()
EnsureDiscovered(tree, discovered) ==
    IF discovered = <<>>
    THEN LET r == DiscoverTests(tree, pat_default)
         IN  [discovered_tests |-> r.discovered_tests, raised |-> r.raised, ran |-> TRUE]
    ELSE [discovered_tests |-> discovered, raised |-> "no", ran |-> FALSE]

\* the length of each list of a categorized mapping
CountsOf(categorized) == [c \in DOMAIN categorized |-> Len(categorized[c])]

NoCounts == [c \in CategoryKeys |-> 0]

Init ==
    /\ fs \in FileSystems
    /\ discovered_tests = <<>>
    /\ call = [op |-> "none"]
    /\ raised = "no"
    /\ result = <<>>
    /\ first_counts = [p \in Patterns |-> [seen |-> FALSE, counts |-> NoCounts]]
    /\ repeated = FALSE
    /\ cat_input = [metadata |-> md_none, directory |-> <<>>]
    /\ cat_output = "none"
    /\ started = FALSE
    /\ completed = FALSE
    /\ ran = FALSE
    /\ NoReporting
    /\ NoRoot

\* engine.discover_tests(pattern)
DiscoverTestsCall(pattern) ==
    LET r == DiscoverTests(fs, pattern)
    IN  /\ discovered_tests' = r.discovered_tests
        /\ call' = [op |-> "discover_tests", pattern |-> pattern]
        /\ raised' = r.raised
        /\ result' = IF r.raised = "no" THEN r.value ELSE <<>>
        /\ first_counts' =
               IF r.raised = "no" /\ ~first_counts[pattern].seen
               THEN [first_counts EXCEPT ![pattern] = [seen |-> TRUE, counts |-> CountsOf(r.value)]]
               ELSE first_counts
        /\ repeated' = first_counts[pattern].seen
        /\ started' = TRUE
        /\ completed' = (completed \/ r.raised = "no")
        /\ ran' = TRUE
        /\ UNCHANGED << fs, cat_input, cat_output >>
        /\ UNCHANGED << formatter_vars, file_vars, runner_vars, root_vars >>

\* engine.filter_tests(categories, exclude_slow, exclude_ci)
FilterTestsCall(categories, exclude_slow, exclude_ci) ==
    LET e == EnsureDiscovered(fs, discovered_tests)
    IN  /\ discovered_tests' = e.discovered_tests
        /\ call' = [op |-> "filter_tests", categories |-> categories,
                    exclude_slow |-> exclude_slow, exclude_ci |-> exclude_ci]
        /\ raised' = e.raised
        /\ result' = IF e.raised = "no"
                     THEN FilterTests(e.discovered_tests, categories, exclude_slow, exclude_ci)
                     ELSE <<>>
        /\ repeated' = FALSE
        /\ started' = (started \/ e.ran)
        /\ completed' = (completed \/ (e.ran /\ e.raised = "no"))
        /\ ran' = e.ran
        /\ UNCHANGED << fs, first_counts, cat_input, cat_output >>
        /\ UNCHANGED << formatter_vars, file_vars, runner_vars, root_vars >>

\* engine.get_test_count_summary()
GetTestCountSummaryCall ==
    LET e == EnsureDiscovered(fs, discovered_tests)
        categorized == CategorizeTests(e.discovered_tests)
    IN  /\ discovered_tests' = e.discovered_tests
        /\ call' = [op |-> "get_test_count_summary"]
        /\ raised' = IF e.raised # "no" THEN e.raised ELSE categorized.raised
        /\ result' = IF e.raised = "no" /\ categorized.raised = "no"
                     THEN CountsOf(categorized.categories)
                     ELSE <<>>
        /\ repeated' = FALSE
        /\ started' = (started \/ e.ran)
        /\ completed' = (completed \/ (e.ran /\ e.raised = "no"))
        /\ ran' = e.ran
        /\ UNCHANGED << fs, first_counts, cat_input, cat_output >>
        /\ UNCHANGED << formatter_vars, file_vars, runner_vars, root_vars >>

\* the lists of categories callers pass to filter_tests
CategoryArgs ==
    { NoCategories,
      CategoryList(<<>>),
      CategoryList(<< "regression" >>),
      CategoryList(<< "integration" >>),
      CategoryList(<< "development" >>),
      CategoryList(<< "uncategorized" >>),
      CategoryList(<< "integration", "development" >>),
      CategoryList(<< "uncategorized", "performance" >>) }

Next ==
    \/ \E pattern \in Patterns : DiscoverTestsCall(pattern)
    \/ \E categories \in CategoryArgs, exclude_slow \in BOOLEAN, exclude_ci \in BOOLEAN :
           FilterTestsCall(categories, exclude_slow, exclude_ci)
    \/ GetTestCountSummaryCall

Spec == Init /\ [][Next]_vars

(************** deeper trees, packages and load_tests modules *************)

\* A tree of three levels: R1 is tests/, S1 is the subdirectory s1name of
\* tests/, and S2 is the directory integration of S1, two levels below the
\* test root.
MkTreeFS(r1kind, s1name, s1kind, s2kind) ==
    [root |-> Layout("R1", NoDir, NoDir, NoDir),
     dirs |-> ("R1" :> MkDir(r1kind, "R1", << DirEntry(s1name, "S1") >>))
           @@ ("R2" :> MkDir("plain", "R2", <<>>))
           @@ ("S1" :> MkDir(s1kind, "S1", << DirEntry(kw_integration, "S2") >>))
           @@ ("S2" :> MkDir(s2kind, "S2", <<>>))]

\* The layouts the engine is run on here: every name of a subdirectory, and
\* the trees of three levels with packages and load_tests modules.
LayoutFileSystems ==
    { MkFS(Layout("R1", NoDir, NoDir, NoDir), k, n, s, "absent") :
          k \in {"empty", "plain"}, n \in SubNames, s \in {"plain", "mixed"} }
    \cup
    { MkTreeFS(k, kw_regression, s, t) :
          k \in {"empty", "plain", "alt"},
          s \in {"empty", "plain", "alt", "package", "altpackage", "nested", "direct", "holder"},
          t \in {"plain", "package"} }

InitLayout ==
    /\ fs \in LayoutFileSystems
    /\ discovered_tests = <<>>
    /\ call = [op |-> "none"]
    /\ raised = "no"
    /\ result = <<>>
    /\ first_counts = [p \in Patterns |-> [seen |-> FALSE, counts |-> NoCounts]]
    /\ repeated = FALSE
    /\ cat_input = [metadata |-> md_none, directory |-> <<>>]
    /\ cat_output = "none"
    /\ started = FALSE
    /\ completed = FALSE
    /\ ran = FALSE
    /\ NoReporting
    /\ NoRoot

\* supports_hierarchical_structure: hierarchical_indicators
hierarchical_indicators == << kw_regression, kw_integration, kw_development, kw_unit >>

\* supports_hierarchical_structure: an exception of _find_test_directories
\* propagates; otherwise whether the lower-cased name of some test directory
\* contains an indicator
SupportsHierarchicalStructure(tree) ==
    LET found == FindTestDirectories(tree)
    IN  IF found.raised # "no" THEN [raised |-> found.raised, value |-> FALSE]
        ELSE [raised |-> "no",
              value  |-> \E i \in 1..Len(found.test_dirs) :
                             \E k \in 1..Len(hierarchical_indicators) :
                                 Contains(Lower(PathName(found.test_dirs[i])),
                                          hierarchical_indicators[k])]

\* engine.supports_hierarchical_structure()
SupportsHierarchicalStructureCall ==
    LET r == SupportsHierarchicalStructure(fs)
    IN  /\ call' = [op |-> "supports_hierarchical_structure"]
        /\ raised' = r.raised
        /\ result' = [value |-> r.value]
        /\ repeated' = FALSE
        /\ ran' = FALSE
        /\ UNCHANGED << fs, discovered_tests, first_counts, cat_input, cat_output,
                        started, completed >>
        /\ UNCHANGED << formatter_vars, file_vars, runner_vars, root_vars >>

\* filter_tests is called here without a category restriction, in its two forms
UnrestrictedArgs == { NoCategories, CategoryList(<<>>) }

NextLayout ==
    \/ \E pattern \in Patterns : DiscoverTestsCall(pattern)
    \/ \E categories \in UnrestrictedArgs, exclude_slow \in BOOLEAN, exclude_ci \in BOOLEAN :
           FilterTestsCall(categories, exclude_slow, exclude_ci)
    \/ SupportsHierarchicalStructureCall

SpecLayout == InitLayout /\ [][NextLayout]_vars

(*********************** _determine_category alone ************************)

\* the directories of the records handed to _determine_category
CatDirectories ==
    { <<>> }
    \cup { << r >> : r \in RootNames }
    \cup { << r, n >> : r \in {n_tests, n_Tests}, n \in SubNames \cup {kw_integration} }
    \cup { << kw_regression, kw_unit >>, << kw_dev, n_tests >> }

CatInputs == { [metadata |-> md, directory |-> dir] : md \in Metadata, dir \in CatDirectories }

InitCategory ==
    /\ fs = MkFS(Layout(NoDir, NoDir, NoDir, NoDir), "empty", kw_regression, "absent", "absent")
    /\ discovered_tests = <<>>
    /\ call = [op |-> "none"]
    /\ raised = "no"
    /\ result = <<>>
    /\ first_counts = [p \in Patterns |-> [seen |-> FALSE, counts |-> NoCounts]]
    /\ repeated = FALSE
    /\ cat_input \in CatInputs
    /\ cat_output = "none"
    /\ started = FALSE
    /\ completed = FALSE
    /\ ran = FALSE
    /\ NoReporting
    /\ NoRoot

\* engine._determine_category(test_info)
DetermineCategoryCall ==
    /\ cat_output' = DetermineCategory(cat_input)
    /\ UNCHANGED << fs, discovered_tests, call, raised, result, first_counts, repeated,
                    cat_input, started, completed, ran >>
    /\ UNCHANGED << formatter_vars, file_vars, runner_vars, root_vars >>

NextCategory == DetermineCategoryCall

SpecCategory == InitCategory /\ [][NextCategory]_vars

(***************** the reporting facade (enhanced_output.py) **************)

\* the discovery engine at rest, for the specifications of the reporting side
NoEngine ==
    /\ fs = MkFS(Layout(NoDir, NoDir, NoDir, NoDir), "empty", kw_regression, "absent", "absent")
    /\ discovered_tests = <<>>
    /\ call = [op |-> "none"]
    /\ raised = "no"
    /\ result = <<>>
    /\ first_counts = [p \in Patterns |-> [seen |-> FALSE, counts |-> NoCounts]]
    /\ repeated = FALSE
    /\ cat_input = [metadata |-> md_none, directory |-> <<>>]
    /\ cat_output = "none"
    /\ started = FALSE
    /\ completed = FALSE
    /\ ran = FALSE

\* the most events published to the observers in one behaviour
MaxEvents == 5

\* TestStatus
Statuses == {"PASS", "FAIL", "ERROR", "SKIP"}

\* the test cases handed to the facade
TestCases == {"test_a", "test_b"}

\* TestResult: name, status, and the time of its creation
TestResultOf(test_case, status, timestamp) ==
    [name |-> test_case, status |-> status, timestamp |-> timestamp]

\* file output configurations
cfg_txt     == [filename |-> "results.txt", format |-> "txt", verbosity |-> 1]
cfg_verbose == [filename |-> "details.txt", format |-> "txt", verbosity |-> 2]
cfg_json    == [filename |-> "results.json", format |-> "json", verbosity |-> 1]

FileOutputs ==
    { <<>>, << cfg_txt >>, << cfg_json, cfg_verbose >> }

\* _setup_console_observer: the strategy of the console observer
ConsoleObserver(format_type) ==
    [kind |-> "console",
     strategy |-> IF format_type = "verbose" THEN "VerboseOutputStrategy"
                  ELSE IF format_type = "json" THEN "JSONOutputStrategy"
                  ELSE "StandardOutputStrategy"]

\* _setup_file_observers: the observer made for one file configuration
FileObserver(file_config) ==
    [kind |-> "file",
     file_path |-> file_config.filename,
     strategy |-> IF file_config.format = "json" THEN "JSONOutputStrategy"
                  ELSE IF file_config.verbosity >= 2 THEN "VerboseOutputStrategy"
                  ELSE "StandardOutputStrategy",
     threaded |-> TRUE]

\* publisher.add_observer(observer)
AddObserver(obs, observer) == Append(obs, observer)

\* the loop of _setup_file_observers
RECURSIVE SetupFileObservers(_, _)
SetupFileObservers(obs, outputs) ==
    IF outputs = <<>> THEN obs
    ELSE SetupFileObservers(AddObserver(obs, FileObserver(Head(outputs))), Tail(outputs))

\* the file observers registered before the console observer
SetupObservers_FilesFirst(format_type, outputs) ==
    AddObserver(SetupFileObservers(<<>>, outputs), ConsoleObserver(format_type))

\* __init__: _setup_console_observer() then _setup_file_observers()
SetupObservers(format_type, outputs) ==
    SetupFileObservers(AddObserver(<<>>, ConsoleObserver(format_type)), outputs)

\* publisher.notify_all(event): every observer is notified, in registration
\* order; a file observer enqueues the event for its worker
RECURSIVE NotifyFrom(_, _, _)
NotifyFrom(obs, i, acc) ==
    IF i > Len(obs) THEN acc
    ELSE NotifyFrom(obs, i + 1,
             [delivered |-> [acc.delivered EXCEPT ![i] = Append(@, acc.event)],
              queue     |-> IF obs[i].kind = "file"
                            THEN [acc.queue EXCEPT ![i] = Append(@, acc.event)]
                            ELSE acc.queue,
              order     |-> Append(acc.order, i),
              event     |-> acc.event])

NotifyAll(event) ==
    LET n == NotifyFrom(observers, 1,
                 [delivered |-> delivered, queue |-> queue, order |-> <<>>, event |-> event])
    IN  /\ delivered' = n.delivered
        /\ queue' = n.queue
        /\ delivery_order' = n.order

\* the events published so far (those notified to the first observer)
Published == IF observers = <<>> THEN <<>> ELSE delivered[1]

\* the number of results with the status
CountStatus(test_list, status) ==
    Cardinality({i \in 1..Len(test_list) : test_list[i].status = status})

\* end_test_run counting errors as failures too
Summarize_ErrorsAsFailures(test_list, start_time, command, exit_code) ==
    [total_tests |-> Len(test_list),
     passed      |-> CountStatus(test_list, "PASS"),
     failed      |-> CountStatus(test_list, "FAIL") + CountStatus(test_list, "ERROR"),
     errors      |-> CountStatus(test_list, "ERROR"),
     skipped     |-> CountStatus(test_list, "SKIP"),
     start_time  |-> start_time,
     command     |-> IF command = "none" THEN "unknown" ELSE command,
     exit_code   |-> exit_code]

\* the TestRunSummary of end_test_run
Summarize(test_list, start_time, command, exit_code) ==
    [total_tests |-> Len(test_list),
     passed      |-> CountStatus(test_list, "PASS"),
     failed      |-> CountStatus(test_list, "FAIL"),
     errors      |-> CountStatus(test_list, "ERROR"),
     skipped     |-> CountStatus(test_list, "SKIP"),
     start_time  |-> start_time,
     command     |-> IF command = "none" THEN "unknown" ELSE command,
     exit_code   |-> exit_code]

\* start_test_run without test_results.clear()
StartTestRun_NoClear(command, test_count) ==
    /\ now' = now + 1
    /\ run_start_time' = now + 1
    /\ run_command' = command
    /\ test_results' = test_results
    /\ NotifyAll([event_type |-> "run_start", command |-> command,
                  start_time |-> now + 1, test_count |-> test_count])
    /\ UNCHANGED << file_outputs, observers >>

\* formatter.start_test_run(command, test_count)
StartTestRun(command, test_count) ==
    /\ now' = now + 1
    /\ run_start_time' = now + 1
    /\ run_command' = command
    /\ test_results' = <<>>
    /\ NotifyAll([event_type |-> "run_start", command |-> command,
                  start_time |-> now + 1, test_count |-> test_count])
    /\ UNCHANGED << file_outputs, observers >>

\* formatter.notify_test_start(test_case)
NotifyTestStart(test_case) ==
    /\ NotifyAll([event_type |-> "test_start", test_name |-> test_case])
    /\ UNCHANGED << test_results, run_start_time, run_command, file_outputs, observers, now >>

\* notify_test_end handing the event to the file observers ahead of the
\* events that wait in their queues
NotifyTestEnd_JumpsQueue(test_result) ==
    LET event == [event_type |-> "test_end", test_result |-> test_result]
    IN  /\ test_results' = Append(test_results, test_result)
        /\ delivered' = [i \in 1..Len(observers) |-> Append(delivered[i], event)]
        /\ queue' = [i \in 1..Len(observers) |->
                        IF observers[i].kind = "file" THEN << event >> \o queue[i]
                        ELSE queue[i]]
        /\ delivery_order' = [i \in 1..Len(observers) |-> i]
        /\ UNCHANGED << run_start_time, run_command, file_outputs, observers, now >>

\* formatter.notify_test_end(test_result)
NotifyTestEnd(test_result) ==
    /\ test_results' = Append(test_results, test_result)
    /\ NotifyAll([event_type |-> "test_end", test_result |-> test_result])
    /\ UNCHANGED << run_start_time, run_command, file_outputs, observers, now >>

\* formatter.end_test_run(exit_code)
EndTestRun(exit_code) ==
    /\ IF run_start_time = 0
       THEN UNCHANGED << delivered, queue, delivery_order >>
       ELSE NotifyAll([event_type |-> "run_end",
                       run_summary |-> Summarize(test_results, run_start_time,
                                                 run_command, exit_code)])
    /\ UNCHANGED << test_results, run_start_time, run_command, file_outputs, observers, now >>

\* formatter.print_test_run_header(test_count)
PrintTestRunHeader(test_count) ==
    StartTestRun(IF run_command = "none" THEN "wobble" ELSE run_command, test_count)

\* formatter.print_test_success / print_test_failure / print_test_error /
\* print_test_skip (test_case, ...)
PrintTestSuccess(test_case) == NotifyTestEnd(TestResultOf(test_case, "PASS", now))
PrintTestFailure(test_case) == NotifyTestEnd(TestResultOf(test_case, "FAIL", now))
PrintTestError(test_case)   == NotifyTestEnd(TestResultOf(test_case, "ERROR", now))
PrintTestSkip(test_case)    == NotifyTestEnd(TestResultOf(test_case, "SKIP", now))

\* formatter.print_test_results(results)
PrintTestResults(res) ==
    EndTestRun(IF res.failures > 0 \/ res.errors > 0 THEN 1 ELSE 0)

\* EnhancedOutputFormatter(file_outputs = outputs): the state after __init__
NewFormatter(outputs) ==
    /\ test_results = <<>>
    /\ run_start_time = 0
    /\ run_command = "none"
    /\ file_outputs = outputs
    /\ observers = SetupObservers("standard", outputs)
    /\ delivered = [i \in 1..Len(observers) |-> <<>>]
    /\ delivery_order = <<>>
    /\ now = 0
    /\ queue = [i \in 1..Len(observers) |-> <<>>]
    /\ written = [i \in 1..Len(observers) |-> <<>>]
    /\ worker = [i \in 1..Len(observers) |->
                    IF observers[i].kind = "file" THEN "running" ELSE "none"]
    /\ handle = [i \in 1..Len(observers) |->
                    IF observers[i].kind = "file" THEN "open" ELSE "none"]
    /\ closing = 0

\* no runner exists
NoRunner ==
    /\ pc = "none"
    /\ suite = <<>>
    /\ current = 0
    /\ unittest_result = [testsRun |-> 0, failures |-> 0, errors |-> 0, skipped |-> 0]
    /\ results = [returned |-> FALSE]
    /\ exit_status = -1
    /\ args = [path_exists |-> TRUE, list_categories |-> FALSE, discover_only |-> FALSE]
    /\ exc = "none"

\* the test case the client of the facade reports on
client_test == "test_a"

\* the command and the test count the client passes to start_test_run
client_command == "wobble tests"
client_count   == 1

\* the results dictionaries handed to print_test_results
ResultDicts == { [failures |-> f, errors |-> e] : f \in {0, 1}, e \in {0, 1} }

InitFormatter ==
    /\ NoEngine
    /\ \E outputs \in FileOutputs : NewFormatter(outputs)
    /\ NoRunner
    /\ NoRoot

\* a call of the facade by its client: at most MaxEvents events are
\* published, and only the formatter and the publisher are touched
FacadeOnly ==
    /\ Len(Published) < MaxEvents
    /\ UNCHANGED << engine_vars, written, worker, handle, closing, runner_vars, root_vars >>

StartTestRunCall       == FacadeOnly /\ StartTestRun(client_command, client_count)
NotifyTestStartCall    == FacadeOnly /\ NotifyTestStart(client_test)
NotifyTestEndCall      ==
    /\ FacadeOnly
    /\ \E status \in Statuses : NotifyTestEnd(TestResultOf(client_test, status, now))
EndTestRunCall         == FacadeOnly /\ (\E exit_code \in {0, 1} : EndTestRun(exit_code))
PrintTestRunHeaderCall == FacadeOnly /\ PrintTestRunHeader(client_count)
PrintTestSuccessCall   == FacadeOnly /\ PrintTestSuccess(client_test)
PrintTestFailureCall   == FacadeOnly /\ PrintTestFailure(client_test)
PrintTestErrorCall     == FacadeOnly /\ PrintTestError(client_test)
PrintTestSkipCall      == FacadeOnly /\ PrintTestSkip(client_test)
PrintTestResultsCall   == FacadeOnly /\ (\E res \in ResultDicts : PrintTestResults(res))

NextFormatter ==
    \/ StartTestRunCall
    \/ NotifyTestStartCall
    \/ NotifyTestEndCall
    \/ EndTestRunCall
    \/ PrintTestRunHeaderCall
    \/ PrintTestSuccessCall
    \/ PrintTestFailureCall
    \/ PrintTestErrorCall
    \/ PrintTestSkipCall
    \/ PrintTestResultsCall

SpecFormatter == InitFormatter /\ [][NextFormatter]_vars

(************************ the runner (runner.py, cli.py) ******************)

\* the most test cases handed to run_tests
MaxTests == 2

\* what running a test case makes unittest call on the result object
Outcomes == {"addSuccess", "addFailure", "addError", "addSkip"}

\* the lists of test infos handed to run_tests: each names its test case and
\* says how the test case ends when it is run
RECURSIVE TestInfoLists(_)
TestInfoLists(n) ==
    IF n = 0 THEN { <<>> }
    ELSE LET shorter == TestInfoLists(n - 1)
         IN  shorter \cup
             { Append(l, [test_case |-> t, outcome |-> o]) :
                   l \in {x \in shorter : Len(x) = n - 1}, t \in TestCases, o \in Outcomes }

NoResults == [testsRun |-> 0, failures |-> 0, errors |-> 0, skipped |-> 0]

InitRunner ==
    /\ NoEngine
    /\ \E outputs \in FileOutputs : NewFormatter(outputs)
    /\ pc = "main"
    /\ suite \in TestInfoLists(MaxTests)
    /\ current = 0
    /\ unittest_result = NoResults
    /\ results = [returned |-> FALSE]
    /\ exit_status = -1
    /\ args = [path_exists |-> TRUE, list_categories |-> FALSE, discover_only |-> FALSE]
    /\ exc = "none"
    /\ NoRoot

\* what the main thread leaves alone: the engine and the workers' side of the
\* file observers
MainThread == UNCHANGED << engine_vars, written, worker, handle, closing, args, root_vars >>

\* main: "if not filtered_tests: ... return 0"
MainNoTests ==
    /\ pc = "main"
    /\ suite = <<>>
    /\ pc' = "exited"
    /\ exit_status' = 0
    /\ UNCHANGED << formatter_vars, queue, suite, current, unittest_result, results, exc >>
    /\ MainThread

\* main calls run_tests(filtered_tests): the suite and the result object are
\* made and the run is started
RunTestsCall ==
    /\ pc = "main"
    /\ suite # <<>>
    /\ StartTestRun("wobble", Len(suite))
    /\ pc' = "suite_run"
    /\ current' = 1
    /\ unittest_result' = NoResults
    /\ UNCHANGED << suite, results, exit_status, exc >>
    /\ MainThread

\* WobbleTestResult.startTest(test)
StartTest ==
    /\ pc = "suite_run"
    /\ current <= Len(suite)
    /\ unittest_result' = [unittest_result EXCEPT !.testsRun = @ + 1]
    /\ NotifyTestStart(suite[current].test_case)
    /\ pc' = "test_body"
    /\ UNCHANGED << suite, current, results, exit_status, exc >>
    /\ MainThread

\* the callback of the test's outcome: what it adds to the result counters
\* and the status it notifies
Callback(outcome, counter, status) ==
    /\ pc = "test_body"
    /\ suite[current].outcome = outcome
    /\ unittest_result' = IF counter = "none" THEN unittest_result
                          ELSE [unittest_result EXCEPT ![counter] = @ + 1]
    /\ NotifyTestEnd(TestResultOf(suite[current].test_case, status, now))
    /\ pc' = "stop_test"
    /\ UNCHANGED << suite, current, results, exit_status, exc >>
    /\ MainThread

\* addSkip inherited from unittest.TestResult: the skip is counted and nothing
\* is notified
AddSkip_Inherited ==
    /\ pc = "test_body"
    /\ suite[current].outcome = "addSkip"
    /\ unittest_result' = [unittest_result EXCEPT !.skipped = @ + 1]
    /\ pc' = "stop_test"
    /\ UNCHANGED << formatter_vars, queue, suite, current, results, exit_status, exc >>
    /\ MainThread

\* WobbleTestResult.addSuccess / addFailure / addError / addSkip
AddSuccess == Callback("addSuccess", "none", "PASS")
AddFailure == Callback("addFailure", "failures", "FAIL")
AddError   == Callback("addError", "errors", "ERROR")
AddSkip    == Callback("addSkip", "skipped", "SKIP")

\* WobbleTestResult.stopTest(test)
StopTest ==
    /\ pc = "stop_test"
    /\ current' = current + 1
    /\ pc' = "suite_run"
    /\ UNCHANGED << formatter_vars, queue, suite, unittest_result, results, exit_status, exc >>
    /\ MainThread

\* run_tests after suite.run(result): the run is ended with the exit code of
\* the result object and the results dictionary is returned
RunTestsReturn ==
    /\ pc = "suite_run"
    /\ current > Len(suite)
    /\ EndTestRun(IF unittest_result.failures > 0 \/ unittest_result.errors > 0 THEN 1 ELSE 0)
    /\ results' = [returned  |-> TRUE,
                   tests_run |-> unittest_result.testsRun,
                   failures  |-> unittest_result.failures,
                   errors    |-> unittest_result.errors,
                   skipped   |-> unittest_result.skipped]
    /\ pc' = "returned"
    /\ UNCHANGED << suite, current, unittest_result, exit_status, exc >>
    /\ MainThread

\* main after run_tests: print_test_results(results), then the exit code
MainPrintResults ==
    /\ pc = "returned"
    /\ PrintTestResults(results)
    /\ exit_status' = IF results.failures > 0 \/ results.errors > 0 THEN 1 ELSE 0
    /\ pc' = "exited"
    /\ UNCHANGED << suite, current, unittest_result, results, exc >>
    /\ MainThread

\* KeyboardInterrupt while suite.run(result) runs: it leaves run_tests, which
\* has no handler, and main's "except KeyboardInterrupt" prints the error
\* message and returns 130
MainKeyboardInterrupt ==
    /\ pc \in {"suite_run", "test_body", "stop_test"}
    /\ pc' = "exited"
    /\ exit_status' = 130
    /\ exc' = "KeyboardInterrupt"
    /\ UNCHANGED << formatter_vars, queue, suite, current, unittest_result, results >>
    /\ MainThread

NextRunner ==
    \/ MainNoTests
    \/ RunTestsCall
    \/ StartTest
    \/ AddSuccess
    \/ AddFailure
    \/ AddError
    \/ AddSkip
    \/ StopTest
    \/ RunTestsReturn
    \/ MainPrintResults
    \/ MainKeyboardInterrupt

SpecRunner == InitRunner /\ [][NextRunner]_vars

(***************************** main (cli.py) ******************************)

\* the command lines of main: whether args.path exists, and the options
\* --list-categories and --discover-only
ArgSets == [path_exists : BOOLEAN, list_categories : BOOLEAN, discover_only : BOOLEAN]

\* main after parse_args, with the tests filter_tests will select in suite
InitMain ==
    /\ NoEngine
    /\ \E outputs \in FileOutputs : NewFormatter(outputs)
    /\ pc = "parsed"
    /\ suite \in TestInfoLists(MaxTests)
    /\ current = 0
    /\ unittest_result = NoResults
    /\ results = [returned |-> FALSE]
    /\ exit_status = -1
    /\ args \in ArgSets
    /\ exc = "none"
    /\ NoRoot

\* main returns code, having caught exception (or "none")
MainReturn(code, exception) ==
    /\ pc' = "exited"
    /\ exit_status' = code
    /\ exc' = exception
    /\ UNCHANGED << formatter_vars, queue, suite, current, unittest_result, results >>
    /\ MainThread

\* main: "if not Path(args.path).exists(): ... return 1"
MainPathMissing ==
    /\ pc = "parsed"
    /\ ~args.path_exists
    /\ MainReturn(1, "none")

\* main constructs the engine and the formatter, enters the try block and
\* calls discover_tests
MainDiscoverTests ==
    /\ pc = "parsed"
    /\ args.path_exists
    /\ pc' = "discovering"
    /\ UNCHANGED << formatter_vars, queue, suite, current, unittest_result, results,
                    exit_status, exc >>
    /\ MainThread

\* a main whose handler of KeyboardInterrupt returns 1 like the general one
MainDiscoveryInterrupt_AsError ==
    /\ pc = "discovering"
    /\ MainReturn(1, "KeyboardInterrupt")

\* KeyboardInterrupt while discover_tests runs: "return 130"
MainDiscoveryInterrupt ==
    /\ pc = "discovering"
    /\ MainReturn(130, "KeyboardInterrupt")

\* any other exception out of discover_tests: "return 1"
MainDiscoveryError ==
    /\ pc = "discovering"
    /\ MainReturn(1, "Exception")

\* main: "if args.list_categories: ... return 0"
MainListCategories ==
    /\ pc = "discovering"
    /\ args.list_categories
    /\ MainReturn(0, "none")

\* main: "if args.discover_only: ... return 0"
MainDiscoverOnly ==
    /\ pc = "discovering"
    /\ ~args.list_categories
    /\ args.discover_only
    /\ MainReturn(0, "none")

\* main calls filter_tests, which returns the tests of suite
MainFilterTests ==
    /\ pc = "discovering"
    /\ ~args.list_categories
    /\ ~args.discover_only
    /\ pc' = "main"
    /\ UNCHANGED << formatter_vars, queue, suite, current, unittest_result, results,
                    exit_status, exc >>
    /\ MainThread

\* an exception other than KeyboardInterrupt out of filter_tests, run_tests
\* or print_test_results: "except Exception ... return 1"
MainExecutionError ==
    /\ pc \in {"main", "suite_run", "test_body", "stop_test", "returned"}
    /\ MainReturn(1, "Exception")

NextMain ==
    \/ MainPathMissing
    \/ MainDiscoverTests
    \/ MainDiscoveryInterrupt
    \/ MainDiscoveryError
    \/ MainListCategories
    \/ MainDiscoverOnly
    \/ MainFilterTests
    \/ MainExecutionError
    \/ NextRunner

SpecMain == InitMain /\ [][NextMain]_vars

(********************* detect_repository_root (cli.py) ********************)

\* the longest chain of directories from the file-system root to the start path
MaxDepth == 3

\* detect_repository_root: indicators
indicators == {".git", "pyproject.toml", "setup.py", "requirements.txt", "Pipfile",
               "package.json"}

\* what a directory of the chain may hold
DirContents == { {}, {".git"}, {"setup.py"}, {"README.md"} }

RECURSIVE Chains(_)
Chains(n) ==
    IF n = 0 THEN { <<>> }
    ELSE LET shorter == Chains(n - 1)
         IN  shorter \cup
             { Append(c, d) : c \in {x \in shorter : Len(x) = n - 1}, d \in DirContents }

\* "current = Path(start_path).resolve()": ancestors[1] is the file-system
\* root and the last directory of the chain is the start path
InitRoot ==
    /\ NoEngine
    /\ NoReporting
    /\ ancestors \in Chains(MaxDepth) \ { <<>> }
    /\ walk = [current |-> Len(ancestors), returned |-> FALSE, root |-> 0]

\* "while current != current.parent": only the file-system root is its own parent
InLoop == ~walk.returned /\ walk.current # 1

RootOnly == UNCHANGED << engine_vars, formatter_vars, file_vars, runner_vars, ancestors >>

\* "if (current / indicator).exists(): return current"
DetectFound ==
    /\ InLoop
    /\ ancestors[walk.current] \cap indicators # {}
    /\ walk' = [walk EXCEPT !.returned = TRUE, !.root = walk.current]
    /\ RootOnly

\* "current = current.parent"
DetectUp ==
    /\ InLoop
    /\ ancestors[walk.current] \cap indicators = {}
    /\ walk' = [walk EXCEPT !.current = @ - 1]
    /\ RootOnly

\* the loop is left: "return None" (root 0)
DetectNone ==
    /\ ~walk.returned
    /\ walk.current = 1
    /\ walk' = [walk EXCEPT !.returned = TRUE, !.root = 0]
    /\ RootOnly

NextRoot ==
    \/ DetectFound
    \/ DetectUp
    \/ DetectNone

SpecRoot == InitRoot /\ [][NextRoot]_vars

(************** the file observers and their workers (threaded) ***********)

\* the most events enqueued when the workers run beside the caller
MaxEnqueued == 3

\* the barrier close puts in the queue of a file observer
close_sentinel == [event_type |-> "close"]

\* the entry a strategy renders for an event
Render(strategy, event) == << strategy, event >>

\* the first file observer at or after position i, Len(obs) + 1 when there
\* is none
RECURSIVE NextToClose(_, _)
NextToClose(obs, i) ==
    IF i > Len(obs) THEN Len(obs) + 1
    ELSE IF obs[i].kind = "file" THEN i
    ELSE NextToClose(obs, i + 1)

\* close_all goes on to the observer at or after position i: the barrier is
\* put in its queue and the caller joins its worker
CloseFrom(i) ==
    LET j == NextToClose(observers, i)
    IN  /\ closing' = j
        /\ queue' = IF j <= Len(observers)
                    THEN [queue EXCEPT ![j] = Append(@, close_sentinel)]
                    ELSE queue

InitFile ==
    /\ NoEngine
    /\ \E outputs \in FileOutputs \ { <<>> } : NewFormatter(outputs)
    /\ NoRunner
    /\ NoRoot

\* the caller has not called close and may enqueue
CallerRuns ==
    /\ closing = 0
    /\ Len(Published) < MaxEnqueued

\* a close that returns without closing the observers
CloseCall_NoCloseAll ==
    /\ closing = 0
    /\ closing' = Len(observers) + 1
    /\ UNCHANGED << engine_vars, formatter_vars, queue, written, worker, handle, runner_vars, root_vars >>

\* formatter.close(): publisher.close_all() closes the observers in
\* registration order; the console observer has nothing to wait for
CloseCall ==
    /\ closing = 0
    /\ CloseFrom(1)
    /\ UNCHANGED << engine_vars, formatter_vars, written, worker, handle, runner_vars, root_vars >>

\* formatter.__exit__(...): self.close()
ExitCall == CloseCall

\* the join of close returns once the worker has stopped: the file handle
\* is released and close_all goes on to the next observer
CloseJoin ==
    /\ closing \in 1..Len(observers)
    /\ worker[closing] = "stopped"
    /\ handle' = [handle EXCEPT ![closing] = "released"]
    /\ CloseFrom(closing + 1)
    /\ UNCHANGED << engine_vars, formatter_vars, written, worker, runner_vars, root_vars >>

\* the worker of observer i takes the next event of its queue and writes it
WorkerWrite(i) ==
    /\ observers[i].kind = "file"
    /\ worker[i] = "running"
    /\ queue[i] # <<>>
    /\ Head(queue[i]) # close_sentinel
    /\ written' = [written EXCEPT ![i] = Append(@, Render(observers[i].strategy, Head(queue[i])))]
    /\ queue' = [queue EXCEPT ![i] = Tail(@)]
    /\ UNCHANGED << engine_vars, formatter_vars, worker, handle, closing, runner_vars, root_vars >>

\* the worker of observer i takes the barrier and stops
WorkerStop(i) ==
    /\ observers[i].kind = "file"
    /\ worker[i] = "running"
    /\ queue[i] # <<>>
    /\ Head(queue[i]) = close_sentinel
    /\ worker' = [worker EXCEPT ![i] = "stopped"]
    /\ queue' = [queue EXCEPT ![i] = Tail(@)]
    /\ UNCHANGED << engine_vars, formatter_vars, written, handle, closing, runner_vars, root_vars >>

NextFile ==
    \/ CallerRuns /\ StartTestRunCall
    \/ CallerRuns /\ PrintTestSuccessCall
    \/ CallerRuns /\ PrintTestFailureCall
    \/ CallerRuns /\ PrintTestResultsCall
    \/ CloseCall
    \/ ExitCall
    \/ CloseJoin
    \/ \E i \in 1..Len(observers) : WorkerWrite(i)
    \/ \E i \in 1..Len(observers) : WorkerStop(i)

SpecFile == InitFile /\ [][NextFile]_vars

(****************************** properties ********************************)

\* how many times x occurs in the sequence seq
Count(seq, x) == Cardinality({i \in 1..Len(seq) : seq[i] = x})

\* a is b with some elements left out, order kept
RECURSIVE IsSubsequence(_, _)
IsSubsequence(a, b) ==
    IF a = <<>> THEN TRUE
    ELSE IF b = <<>> THEN FALSE
    ELSE IF Head(a) = Head(b) THEN IsSubsequence(Tail(a), Tail(b))
    ELSE IsSubsequence(a, Tail(b))

\* the test cases of a suite, at any depth
RECURSIVE TestsIn(_)
TestsIn(nodes) ==
    IF nodes = <<>> THEN <<>>
    ELSE (IF Head(nodes).kind = "suite" THEN TestsIn(Head(nodes).tests)
          ELSE IF Head(nodes).kind = "test" THEN << Head(nodes) >>
          ELSE <<>>) \o TestsIn(Tail(nodes))

\* the physical directories below the test roots: the roots and their
\* immediate subdirectories
RootDirs(f) == {f.root[r] : r \in RootNames} \ {NoDir}
SubDirs(f)  ==
    UNION { {f.dirs[d].entries[i].dir : i \in 1..Len(f.dirs[d].entries)} : d \in RootDirs(f) }
        \ {NoDir}

\* the directory holds a file named test*.py, readable or not
HoldsTestFile(f, d) ==
    \E i \in 1..Len(f.dirs[d].entries) :
        /\ ~f.dirs[d].entries[i].is_dir
        /\ StartsWith(f.dirs[d].entries[i].name, kw_test)
        /\ EndsWith(f.dirs[d].entries[i].name, ext_py)

NoTestBearingDirectory(f) ==
    \A d \in RootDirs(f) \cup SubDirs(f) : ~HoldsTestFile(f, d)

\* the tests the loader returns for a directory
LoadedTests(f, directory, pattern) ==
    TestsIn(<< Loader(f, Resolve(f, directory), pattern).suite >>)

\* the number of tests the loader returns for the directories it does not
\* raise on
RECURSIVE LoadableCount(_, _, _)
LoadableCount(f, test_dirs, pattern) ==
    IF test_dirs = <<>> THEN 0
    ELSE (IF Loader(f, Resolve(f, Head(test_dirs)), pattern).raised THEN 0
          ELSE Len(LoadedTests(f, Head(test_dirs), pattern)))
         + LoadableCount(f, Tail(test_dirs), pattern)

\* the records of load failures kept in discovered_tests
ImportErrors(discovered) ==
    SelectSeq(discovered, LAMBDA r : "error_type" \in DOMAIN r)

\* the file system with every directory that cannot be listed taken away
WithoutUnlistable(f) ==
    [root |-> [r \in RootNames |->
                  IF f.root[r] # NoDir /\ ~f.dirs[f.root[r]].listable THEN NoDir
                  ELSE f.root[r]],
     dirs |-> [d \in DirIds |->
                  [f.dirs[d] EXCEPT !.entries =
                      SelectSeq(@, LAMBDA e : ~e.is_dir \/ f.dirs[e.dir].listable)]]]

\* C1: after any discover_tests call the returned mapping partitions the
\* discovered tests (each test is in exactly one of the four lists, whatever
\* its metadata and directory), categorization never fails, and the counts
\* of get_test_count_summary sum to the number of discovered tests.
C1_CategoriesPartitionTests ==
    /\ raised # "KeyError"
    /\ (call.op = "discover_tests" /\ raised = "no") =>
           /\ DOMAIN result = CategoryKeys
           /\ \A i \in 1..Len(discovered_tests) :
                  LET t == discovered_tests[i]
                  IN  Count(result["regression"], t) + Count(result["integration"], t)
                        + Count(result["development"], t) + Count(result["uncategorized"], t)
                      = Count(discovered_tests, t)
    /\ (call.op = "get_test_count_summary" /\ raised = "no") =>
           result["regression"] + result["integration"] + result["development"]
             + result["uncategorized"] = Len(discovered_tests)

\* C2: for every test record whose metadata declares a category,
\* _determine_category returns the declared category, whatever the name of
\* the containing directory.
C2_DecoratorPrecedence ==
    (cat_output # "none" /\ StrTruthy(cat_input.metadata, "category"))
        => cat_output = cat_input.metadata.category

\* C2 witness: a test declared regression in a directory named integration
\* is categorized regression.
C2_Witness ==
    /\ cat_output = "regression"
    /\ cat_input.metadata = md_reg
    /\ cat_input.directory = << n_tests, kw_integration >>

\* C3: for every test record without a declared category, the category
\* depends only on the lowercased name of the immediate directory: contains
\* regression -> regression, else contains integration -> integration, else
\* contains development or dev -> development, else uncategorized.
C3_DirectoryRule ==
    (cat_output # "none" /\ ~StrTruthy(cat_input.metadata, "category")) =>
        IF cat_input.directory = <<>> THEN cat_output = "uncategorized"
        ELSE LET name == Lower(cat_input.directory[Len(cat_input.directory)])
             IN  /\ cat_output =
                        (IF Contains(name, kw_regression) THEN "regression"
                         ELSE IF Contains(name, kw_integration) THEN "integration"
                         ELSE IF Contains(name, kw_development) \/ Contains(name, kw_dev)
                              THEN "development"
                         ELSE "uncategorized")
                 /\ \A other \in CatInputs :
                        (/\ ~StrTruthy(other.metadata, "category")
                         /\ other.directory # <<>>
                         /\ Lower(other.directory[Len(other.directory)]) = name)
                        => DetermineCategory(other) = cat_output

\* C3 witness: an undecorated test in integration_regression/ is
\* categorized regression.
C3_Witness ==
    /\ cat_output = "regression"
    /\ cat_input.metadata = md_skip_ci
    /\ cat_input.directory = << n_tests, kw_integration \o <<"_">> \o kw_regression >>

\* C4: for every repository with no test-bearing directory, discover_tests
\* returns, without raising, a mapping with the four keys, each with an
\* empty list.
C4_EmptyRepository ==
    (call.op = "discover_tests" /\ NoTestBearingDirectory(fs)) =>
        /\ raised = "no"
        /\ DOMAIN result = CategoryKeys
        /\ \A c \in CategoryKeys : result[c] = <<>>

\* C5: if the loader raises for one qualifying directory, discover_tests
\* does not raise and records all the tests of every other qualifying
\* directory, and only them (one failing directory and one directory with
\* 3 tests give exactly 3 discovered tests).
C5_PartialFailureIsolation ==
    LET found == FindTestDirectories(fs)
    IN  (/\ call.op = "discover_tests"
         /\ found.raised = "no"
         /\ \E i \in 1..Len(found.test_dirs) :
                Loader(fs, Resolve(fs, found.test_dirs[i]), call.pattern).raised) =>
            /\ raised = "no"
            /\ \A j \in 1..Len(found.test_dirs) :
                   ~Loader(fs, Resolve(fs, found.test_dirs[j]), call.pattern).raised =>
                       LET tests == LoadedTests(fs, found.test_dirs[j], call.pattern)
                       IN  \A k \in 1..Len(tests) :
                               \E n \in 1..Len(discovered_tests) :
                                   /\ discovered_tests[n].test_case = tests[k].id
                                   /\ discovered_tests[n].directory = found.test_dirs[j]
            /\ Len(discovered_tests) = LoadableCount(fs, found.test_dirs, call.pattern)

\* C6: whatever directories cannot be listed, test roots included,
\* discover_tests returns without raising and discovers what it discovers
\* when those directories are absent.
C6_UnreadableTreatedAsAbsent ==
    call.op = "discover_tests" =>
        /\ raised # "PermissionError"
        /\ discovered_tests = DiscoverTests(WithoutUnlistable(fs), call.pattern).discovered_tests

\* C7: a load-failure placeholder met during a directory's discovery is
\* recorded as a structured record in the import_errors bucket, is not
\* appended as a runnable test, is in none of the four category lists, and
\* discovery does not fail.
C7_ErrorHolderRecorded ==
    LET found == FindTestDirectories(fs)
    IN  (call.op = "discover_tests" /\ found.raised = "no") =>
            \A j \in 1..Len(found.test_dirs) :
                LET r     == Loader(fs, Resolve(fs, found.test_dirs[j]), call.pattern)
                    cases == GroupsOf(r.suite.tests)
                IN  ~r.raised =>
                      \A k \in 1..Len(cases) :
                        (/\ IsErrorHolder(cases[k])
                         /\ \A m \in 1..(k - 1) : cases[m].kind = "test") =>
                            /\ \E n \in 1..Len(ImportErrors(discovered_tests)) :
                                   ImportErrors(discovered_tests)[n].error_holder = cases[k].id
                            /\ \A n \in 1..Len(discovered_tests) :
                                   "test_case" \in DOMAIN discovered_tests[n] =>
                                       discovered_tests[n].test_case # cases[k].id
                            /\ raised # "TypeError"

C9_NoDirectoryTwice ==
    LET found == FindTestDirectories(fs)
    IN  (call.op = "discover_tests" /\ raised = "no") =>
            /\ \A i, j \in 1..Len(found.test_dirs) :
                   i # j => Resolve(fs, found.test_dirs[i]) # Resolve(fs, found.test_dirs[j])
            /\ \A i, j \in 1..Len(discovered_tests) :
                   i # j => discovered_tests[i].test_case # discovered_tests[j].test_case

\* C10 as stated: filter_tests returns, in discovery order, exactly the
\* discovered tests t with (categories is None or category(t) in categories),
\* not (exclude_slow and t is flagged slow) and not (exclude_ci and t is
\* flagged skip_ci).
C10_FilterAsStated ==
    (call.op = "filter_tests" /\ raised = "no") =>
        result = SelectSeq(discovered_tests,
                     LAMBDA t :
                         /\ (~call.categories.given
                               \/ InList(DetermineCategory(t), call.categories.list))
                         /\ ~(call.exclude_slow /\ "slow" \in DOMAIN t.metadata
                                /\ t.metadata.slow = TRUE)
                         /\ ~(call.exclude_ci /\ "skip_ci" \in DOMAIN t.metadata
                                /\ t.metadata.skip_ci = TRUE))

\* C10 amended: filter_tests returns, in discovery order, exactly the
\* discovered tests t with (categories is None or empty, or category(t) in
\* categories), not (exclude_slow and t is flagged slow) and not (exclude_ci
\* and t is flagged skip_ci); a test without a flag is never excluded, and
\* filter_tests(exclude_slow=True) is a sub-list of filter_tests().
C10_FilterAmended ==
    /\ (call.op = "filter_tests" /\ raised = "no") =>
          /\ result = SelectSeq(discovered_tests,
                          LAMBDA t :
                              /\ (\/ ~call.categories.given
                                  \/ call.categories.list = <<>>
                                  \/ InList(DetermineCategory(t), call.categories.list))
                              /\ ~(call.exclude_slow /\ "slow" \in DOMAIN t.metadata
                                     /\ t.metadata.slow = TRUE)
                              /\ ~(call.exclude_ci /\ "skip_ci" \in DOMAIN t.metadata
                                     /\ t.metadata.skip_ci = TRUE))
          /\ \A i \in 1..Len(discovered_tests) :
                 (/\ "slow" \notin DOMAIN discovered_tests[i].metadata
                  /\ "skip_ci" \notin DOMAIN discovered_tests[i].metadata
                  /\ ~call.categories.given)
                 => InList(discovered_tests[i], result)
    /\ IsSubsequence(FilterTests(discovered_tests, NoCategories, TRUE, FALSE),
                     FilterTests(discovered_tests, NoCategories, FALSE, FALSE))

\* C10 witness: a filter_tests call with a category list and exclude_slow
\* has returned some of the discovered tests and left out a slow one of a
\* listed category.
C10_Witness ==
    /\ call.op = "filter_tests"
    /\ raised = "no"
    /\ call.categories = CategoryList(<< "integration", "development" >>)
    /\ call.exclude_slow
    /\ result # <<>>
    /\ \E i \in 1..Len(discovered_tests) :
           /\ DetermineCategory(discovered_tests[i]) = "integration"
           /\ ~InList(discovered_tests[i], result)

\* C11: filter_tests runs discover_tests when discover_tests has not been
\* run on this engine before, and once a discovery pass has completed, also
\* one that found no test, filter_tests does not run it again.
C11_LazyDiscoveryOnce ==
    [][ call'.op = "filter_tests" =>
            /\ ~started => ran'
            /\ completed => ~ran' ]_vars

\* C12: right after a discover_tests call that returned, for every category
\* c, filter_tests([c]) returns the list discover_tests returned for c, in
\* the same order, and get_test_count_summary() gives its length for c, and
\* neither runs discover_tests again.
C12_CategoriesRederivable ==
    [][ (call.op = "discover_tests" /\ raised = "no") =>
            /\ ( /\ call'.op = "filter_tests"
                 /\ call'.categories.given
                 /\ Len(call'.categories.list) = 1
                 /\ call'.categories.list[1] \in CategoryKeys
                 /\ ~call'.exclude_slow
                 /\ ~call'.exclude_ci )
               => ( /\ raised' = "no"
                    /\ result' = result[call'.categories.list[1]]
                    /\ ~ran' )
            /\ call'.op = "get_test_count_summary"
               => ( /\ raised' = "no"
                    /\ \A c \in CategoryKeys : result'[c] = Len(result[c])
                    /\ ~ran' ) ]_vars
\* the positions of the test_end events of log between position from and
\* position to, both excluded
TestEndsBetween(log, from, to) ==
    {i \in (from + 1)..(to - 1) : log[i].event_type = "test_end"}

\* the position of the latest run_start event of log before position n, 0
\* when there is none
LatestRunStart(log, n) ==
    LET starts == {i \in 1..(n - 1) : log[i].event_type = "run_start"}
    IN  IF starts = {} THEN 0 ELSE CHOOSE i \in starts : \A j \in starts : j <= i

\* the number of run_start events of log up to position n
RunStartsUpTo(log, n) ==
    Cardinality({i \in 1..n : log[i].event_type = "run_start"})

\* C13: the summary published at the end of run k (the run begun by the
\* k-th start_test_run) counts exactly the results created during run k:
\* results of earlier runs, or notified before the first start, are not in
\* it, and none is left in test_results when the summary is published.
C13_StartResetsRunState ==
    /\ \A n \in 1..Len(Published) :
           Published[n].event_type = "run_end" =>
               LET s == Published[n].run_summary
                   in_run == {i \in 1..n : /\ Published[i].event_type = "test_end"
                                           /\ Published[i].test_result.timestamp = s.start_time}
               IN  /\ s.start_time = RunStartsUpTo(Published, n)
                   /\ s.total_tests = Cardinality(in_run)
    /\ run_start_time # 0 =>
           \A i \in 1..Len(test_results) : test_results[i].timestamp = run_start_time

\* C13 witness: the second run ends with an empty summary after a first run
\* that recorded a result.
C13_Witness ==
    /\ Len(Published) = 5
    /\ Published[2].event_type = "test_end"
    /\ Published[3].event_type = "run_end"
    /\ Published[3].run_summary.total_tests = 1
    /\ Published[5].event_type = "run_end"
    /\ Published[5].run_summary.start_time = 2
    /\ Published[5].run_summary.total_tests = 0

\* C14: in every published summary total_tests is the sum of passed, failed,
\* errors and skipped and is the number of test_end events since the latest
\* run_start, and each of the four counters is the number of those events
\* whose result has that status.
C14_SummaryCounts ==
    \A n \in 1..Len(Published) :
        Published[n].event_type = "run_end" =>
            LET s == Published[n].run_summary
                ends == TestEndsBetween(Published, LatestRunStart(Published, n), n)
                with(status) == Cardinality({i \in ends : Published[i].test_result.status = status})
            IN  /\ s.total_tests = s.passed + s.failed + s.errors + s.skipped
                /\ s.total_tests = Cardinality(ends)
                /\ s.passed = with("PASS")
                /\ s.failed = with("FAIL")
                /\ s.errors = with("ERROR")
                /\ s.skipped = with("SKIP")

\* C14 witness: a summary over one failed, one erroneous and one skipped test.
C14_Witness ==
    /\ Len(Published) = 5
    /\ Published[5].event_type = "run_end"
    /\ Published[5].run_summary.total_tests = 3
    /\ Published[5].run_summary.failed = 1
    /\ Published[5].run_summary.errors = 1
    /\ Published[5].run_summary.skipped = 1

\* C15: every published summary carries exit code 1 when a result recorded
\* in its run has status FAIL or ERROR, and exit code 0 otherwise.
C15_ExitCodeFromResults ==
    \A n \in 1..Len(Published) :
        Published[n].event_type = "run_end" =>
            LET ends == TestEndsBetween(Published, LatestRunStart(Published, n), n)
                bad == \E i \in ends : Published[i].test_result.status \in {"FAIL", "ERROR"}
            IN  Published[n].run_summary.exit_code = (IF bad THEN 1 ELSE 0)

\* C17: the observers are the console observer followed by one file observer
\* per entry of file_outputs, in that order, and never change; every
\* notify_all reaches all of them in that order, so each observer has been
\* notified of the same events, whatever the other observers are.
C17_FanOutInRegistrationOrder ==
    /\ [](/\ Len(observers) = Len(file_outputs) + 1
          /\ observers[1].kind = "console"
          /\ \A j \in 1..Len(file_outputs) :
                 /\ observers[j + 1].kind = "file"
                 /\ observers[j + 1].file_path = file_outputs[j].filename
          /\ Published # <<>> => delivery_order = [i \in 1..Len(observers) |-> i]
          /\ \A i \in 1..Len(observers) :
                 /\ RunStartsUpTo(delivered[i], Len(delivered[i])) = now
                 /\ LET n == Len(delivered[i]) + 1
                        ends == TestEndsBetween(delivered[i], LatestRunStart(delivered[i], n), n)
                    IN  run_start_time # 0 => Cardinality(ends) = Len(test_results)
                 /\ \A j \in 1..Len(observers) : delivered[i] = delivered[j])
    /\ [][observers' = observers]_vars

\* C17 witness: three observers have each been notified of a whole run.
C17_Witness ==
    /\ Len(observers) = 3
    /\ Len(delivered[3]) = 3
    /\ delivered[3][3].event_type = "run_end"
    /\ delivery_order = << 1, 2, 3 >>
\* the test an event is about, "" for the events of the run
TestOf(event) ==
    IF event.event_type = "test_start" THEN event.test_name
    ELSE IF event.event_type = "test_end" THEN event.test_result.name
    ELSE ""

\* the events run_tests is to publish for a list of test infos: their types
\* and tests
RECURSIVE TestEventsOf(_)
TestEventsOf(infos) ==
    IF infos = <<>> THEN <<>>
    ELSE << << "test_start", Head(infos).test_case >>,
            << "test_end", Head(infos).test_case >> >> \o TestEventsOf(Tail(infos))

ExpectedEvents(infos) ==
    << << "run_start", "" >> >> \o TestEventsOf(infos) \o << << "run_end", "" >> >>

C20_InterruptStillReports ==
    (pc = "exited" /\ exit_status = 130) =>
        /\ Published # <<>>
        /\ Published[Len(Published)].event_type = "run_end"
        /\ closing = Len(observers) + 1
\* the entries observer i is to write for the events notified to it
RenderedFor(i) ==
    [k \in 1..Len(delivered[i]) |-> Render(observers[i].strategy, delivered[i][k])]

\* the events waiting in the queue of observer i, the barrier left out
Waiting(i) == SelectSeq(queue[i], LAMBDA e : e # close_sentinel)

C19_CloseIsBarrier ==
    closing = Len(observers) + 1 =>
        \A i \in 1..Len(observers) :
            observers[i].kind = "file" =>
                /\ written[i] = RenderedFor(i)
                /\ queue[i] = <<>>
                /\ worker[i] = "stopped"
                /\ handle[i] = "released"

\* C19 witness: close has returned with three events written to each of two
\* files.
C19_Witness ==
    /\ closing = Len(observers) + 1
    /\ Len(observers) = 3
    /\ Len(written[2]) = 3
    /\ Len(written[3]) = 3

\* how many tests of the list end with one of the outcomes
FailingOutcomes(test_list) ==
    Cardinality({ i \in 1..Len(test_list) : test_list[i].outcome \in {"addFailure", "addError"} })

\* C21: when main has returned, its exit code is 1 if the path does not
\* exist, else 130 if a KeyboardInterrupt was caught, else 1 if another
\* exception was caught, else 0 for --list-categories, for --discover-only
\* and when no test was selected (no run was then started), and otherwise 1
\* if a test of the run failed or ended in error and 0 if none did
C21_ExitCodes ==
    pc = "exited" =>
        IF ~args.path_exists THEN exit_status = 1
        ELSE IF exc = "KeyboardInterrupt" THEN exit_status = 130
        ELSE IF exc = "Exception" THEN exit_status = 1
        ELSE IF args.list_categories \/ args.discover_only \/ suite = <<>>
             THEN exit_status = 0 /\ run_start_time = 0 /\ Published = <<>>
        ELSE exit_status = (IF FailingOutcomes(suite) > 0 THEN 1 ELSE 0)

C21_Witness ==
    /\ pc = "exited"
    /\ args.path_exists
    /\ exc = "none"
    /\ ~args.list_categories
    /\ ~args.discover_only
    /\ Len(suite) = 2
    /\ FailingOutcomes(suite) = 1
    /\ exit_status = 1

\* the directories of the chain that hold a repository indicator
WithIndicator == { i \in 1..Len(ancestors) : ancestors[i] \cap indicators # {} }

\* the nearest of them to the start path, 0 when there is none
Nearest == IF WithIndicator = {} THEN 0
           ELSE CHOOSE i \in WithIndicator : \A j \in WithIndicator : j <= i

\* C22: detect_repository_root returns the nearest directory among the start
\* path and its ancestors, the file-system root included, that holds a
\* repository indicator, and None exactly when none of them holds one
C22_NearestIndicator ==
    walk.returned => walk.root = Nearest

\* the category _determine_category gives an undecorated test of a directory
UndecoratedCategory(directory) ==
    DetermineCategory([metadata |-> md_none, directory |-> directory])

\* C23: supports_hierarchical_structure returns true exactly when some
\* qualifying test directory gives its undecorated tests a category other
\* than uncategorized, i.e. when its name contains a keyword of the
\* categorization rule
C23_AgreesWithDirectoryRule ==
    (call.op = "supports_hierarchical_structure" /\ raised = "no") =>
        LET test_dirs == FindTestDirectories(fs).test_dirs
        IN  result.value <=>
                \E i \in 1..Len(test_dirs) :
                    UndecoratedCategory(test_dirs[i]) # "uncategorized"

\* the directories two levels below a test root
DeepDirs(f) ==
    UNION { {f.dirs[d].entries[i].dir : i \in 1..Len(f.dirs[d].entries)} : d \in SubDirs(f) }
        \ {NoDir}

\* C24: the directories _find_test_directories returns are test roots and
\* immediate subdirectories of test roots, never a directory further down;
\* no returned subdirectory has a name that starts with '.' or '__'; and
\* every returned directory directly holds a file named test*.py.  Tests
\* are recorded under returned directories only.
C24_OnlyQualifyingDirectories ==
    LET found == FindTestDirectories(fs)
    IN  /\ \A i \in 1..Len(found.test_dirs) :
               LET path == found.test_dirs[i]
               IN  /\ Len(path) \in {1, 2}
                   /\ path[1] \in RootNames
                   /\ fs.root[path[1]] # NoDir
                   /\ Len(path) = 2 =>
                          /\ \E j \in 1..Len(fs.dirs[fs.root[path[1]]].entries) :
                                 LET e == fs.dirs[fs.root[path[1]]].entries[j]
                                 IN  e.is_dir /\ e.name = path[2]
                          /\ path[2][1] # "."
                          /\ ~(path[2][1] = "_" /\ path[2][2] = "_")
                   /\ HoldsTestFile(fs, Resolve(fs, path))
        /\ \A k \in 1..Len(discovered_tests) :
               \E i \in 1..Len(found.test_dirs) :
                   discovered_tests[k].directory = found.test_dirs[i]

\* a root and its subdirectory were returned and scanned while a directory
\* two levels below the root holds test files too
C24_Witness ==
    /\ call.op = "discover_tests"
    /\ raised = "no"
    /\ Len(FindTestDirectories(fs).test_dirs) = 2
    /\ \E d \in DeepDirs(fs) : HoldsTestFile(fs, d)
    /\ \E k \in 1..Len(discovered_tests) : Len(discovered_tests[k].directory) = 2

\* the suite holds a load-failure placeholder, at any depth
RECURSIVE HoldsPlaceholder(_)
HoldsPlaceholder(nodes) ==
    IF nodes = <<>> THEN FALSE
    ELSE \/ Head(nodes).kind = "holder"
         \/ (Head(nodes).kind = "suite" /\ HoldsPlaceholder(Head(nodes).tests))
         \/ HoldsPlaceholder(Tail(nodes))

\* how many records of discovered_tests are the test under the directory
RecordedUnder(test_id, directory) ==
    Cardinality({ k \in 1..Len(discovered_tests) :
                      /\ "test_case" \in DOMAIN discovered_tests[k]
                      /\ discovered_tests[k].test_case = test_id
                      /\ discovered_tests[k].directory = directory })

\* C25: after discover_tests has returned, for every scanned directory whose
\* suite the loader returned (without placeholder), whatever the nesting of
\* that suite, every test case in it is recorded exactly once under that
\* directory
C25_FlatteningComplete ==
    (call.op = "discover_tests" /\ raised = "no") =>
        LET test_dirs == FindTestDirectories(fs).test_dirs
        IN  \A i \in 1..Len(test_dirs) :
                LET r == Loader(fs, Resolve(fs, test_dirs[i]), call.pattern)
                IN  (~r.raised /\ ~HoldsPlaceholder(<< r.suite >>)) =>
                        LET tests == TestsIn(<< r.suite >>)
                        IN  \A t \in 1..Len(tests) :
                                RecordedUnder(tests[t].id, test_dirs[i]) = 1

\* C26: at most one run_end event is published per start_test_run: every
\* run_end is preceded by a run_start, and between two run_end events there
\* is a run_start
C26_OneSummaryPerRun ==
    \A j \in 1..Len(Published) :
        Published[j].event_type = "run_end" =>
            /\ \E s \in 1..(j - 1) : Published[s].event_type = "run_start"
            /\ \A i \in 1..(j - 1) :
                   Published[i].event_type = "run_end" =>
                       \E s \in (i + 1)..(j - 1) : Published[s].event_type = "run_start"

\* C27: after discover_tests has returned, for every scanned directory whose
\* suite holds a load-failure placeholder together with test cases, every
\* one of those test cases is recorded under that directory, whether it
\* comes before or after the placeholder
C27_TestsBesidePlaceholderKept ==
    (call.op = "discover_tests" /\ raised = "no") =>
        LET test_dirs == FindTestDirectories(fs).test_dirs
        IN  \A i \in 1..Len(test_dirs) :
                LET r == Loader(fs, Resolve(fs, test_dirs[i]), call.pattern)
                IN  (~r.raised /\ HoldsPlaceholder(<< r.suite >>)) =>
                        LET tests == TestsIn(<< r.suite >>)
                        IN  \A t \in 1..Len(tests) :
                                RecordedUnder(tests[t].id, test_dirs[i]) >= 1

\* C28: after discover_tests has returned on a tree whose test roots are
\* distinct directories, no test case is recorded twice in discovered_tests,
\* also when a root and its subdirectory both qualify and the loader descends
\* from the root into the subdirectory
C28_NoTestTwice ==
    (call.op = "discover_tests" /\ raised = "no" /\
     \A a, b \in RootNames : (a # b /\ fs.root[a] # NoDir) => fs.root[a] # fs.root[b]) =>
        \A i, j \in 1..Len(discovered_tests) :
            ("test_case" \in DOMAIN discovered_tests[i] /\
             "test_case" \in DOMAIN discovered_tests[j] /\
             discovered_tests[i].test_case = discovered_tests[j].test_case) => i = j

\* C29: a filter_tests(categories=[]) call that follows a
\* filter_tests(categories=None) call with the same flags returns the same
\* list: the empty list restricts nothing
C29_EmptyListIsNoRestriction ==
    [][ ( /\ call.op = "filter_tests"
          /\ call.categories = NoCategories
          /\ raised = "no"
          /\ call'.op = "filter_tests"
          /\ call'.categories = CategoryList(<<>>)
          /\ call'.exclude_slow = call.exclude_slow
          /\ call'.exclude_ci = call.exclude_ci )
        => (raised' = "no" /\ result' = result) ]_vars

\* filter_tests([]) returned tests of several categories and left out only
\* what exclude_slow excludes
C29_Witness ==
    /\ call.op = "filter_tests"
    /\ call.categories = CategoryList(<<>>)
    /\ raised = "no"
    /\ call.exclude_slow
    /\ 0 < Len(result)
    /\ Len(result) < Len(discovered_tests)
    /\ \E i, j \in 1..Len(result) :
           DetermineCategory(result[i]) # DetermineCategory(result[j])

\* C30: after discover_tests(pattern) has returned, whatever the pattern,
\* tests are recorded only under directories that directly hold a file named
\* test*.py, and a directory that holds no such file contributes no test,
\* even if its files match the pattern
C30_PatternDoesNotWidenScan ==
    (call.op = "discover_tests" /\ raised = "no") =>
        \A k \in 1..Len(discovered_tests) :
            /\ HoldsTestFile(fs, Resolve(fs, discovered_tests[k].directory))
            /\ HoldsTestFile(fs, discovered_tests[k].test_case[1])

====
